---- MODULE Spec2Model ----
(***************************************************************************)
(* Model of backend/app.py: the bulletin-board backend.                    *)
(*                                                                         *)
(* Python strings are modelled as sequences of atoms.  An atom is a fixed  *)
(* chunk of characters ("/", " ", "dis", a digit, a word); the string is   *)
(* the concatenation of its atoms.  Splitting, prefix tests, digit tests   *)
(* and substring search work on atoms as the Python operations work on     *)
(* characters.  The role names of ROLES are written in ASCII:              *)
(*   blueID=青ID speaker=スピーカー manager=マネージャー                   *)
(*   moderator=モデレーター summit=サミット operator=運営                  *)
(*                                                                         *)
(* An optional (nullable) value is a set: {} is None, {v} is the value v.  *)
(* Time is counted in ticks of 1/TicksPerSecond second.                    *)
(***************************************************************************)
EXTENDS Integers, Sequences, FiniteSets, TLC

VARIABLES users, posts, nextId, now, last, pc, loc

vars == <<users, posts, nextId, now, last, pc, loc>>

\* ---------------------------------------------------------------- bounds
MaxPosts == 3
MaxTime == 12
MaxLatency == 1
TicksPerSecond == 2

\* ------------------------------------------------------------- constants
COOLDOWN_SECONDS == 5

ROLES == << <<"blueID">>, <<"speaker">>, <<"manager">>, <<"moderator">>,
            <<"summit">>, <<"operator">> >>

\* ----------------------------------------------------------- str helpers
None == {}

Some(v) == {v}

The(opt) == CHOOSE v \in opt : TRUE

Digits == {"0", "1", "2", "3", "4", "5", "6", "7", "8", "9"}

DigitValue(a) ==
    CASE a = "0" -> 0 [] a = "1" -> 1 [] a = "2" -> 2 [] a = "3" -> 3
      [] a = "4" -> 4 [] a = "5" -> 5 [] a = "6" -> 6 [] a = "7" -> 7
      [] a = "8" -> 8 [] a = "9" -> 9

\* str.startswith(prefix)
startswith(s, prefix) ==
    /\ Len(s) >= Len(prefix)
    /\ SubSeq(s, 1, Len(prefix)) = prefix

\* s[n:]
drop(s, n) == SubSeq(s, n + 1, Len(s))

\* str.isdigit(): non-empty and every character a digit
isdigit(s) == Len(s) > 0 /\ \A i \in 1..Len(s) : s[i] \in Digits

\* int(s) of a digit string
RECURSIVE int(_)
int(s) ==
    IF Len(s) = 0 THEN 0
    ELSE 10 * int(SubSeq(s, 1, Len(s) - 1)) + DigitValue(s[Len(s)])

\* str.split(' ', maxsplit): cut at the first maxsplit spaces
RECURSIVE split(_, _)
split(s, maxsplit) ==
    IF maxsplit = 0 \/ ~(\E i \in 1..Len(s) : s[i] = " ") THEN <<s>>
    ELSE LET i == CHOOSE k \in 1..Len(s) :
                      s[k] = " " /\ \A j \in 1..(k - 1) : s[j] # " "
         IN  <<SubSeq(s, 1, i - 1)>> \o split(drop(s, i), maxsplit - 1)

\* content LIKE '%keyword%' for a keyword without LIKE wildcards
like_contains(content, keyword) ==
    \E i \in 1..(Len(content) + 1) :
        /\ i + Len(keyword) - 1 <= Len(content)
        /\ SubSeq(content, i, i + Len(keyword) - 1) = keyword

\* ------------------------------------------------- roles and the gate
get_role_level(role_name) ==
    IF \E i \in 1..Len(ROLES) : ROLES[i] = role_name
    THEN (CHOOSE i \in 1..Len(ROLES) : ROLES[i] = role_name) - 1
    ELSE -1

\* variant: a request without the header counts as the highest role
get_current_user_role_failopen(headers) ==
    IF headers.role = None THEN <<"operator">> ELSE The(headers.role)

\* request.headers.get('X-User-Role', '青ID'): the header is optional
get_current_user_role(headers) ==
    IF headers.role = None THEN <<"blueID">> ELSE The(headers.role)

\* variant: the comparison is off by one tier
role_denied_lenient(current_user_role, min_role_name) ==
    get_role_level(current_user_role) + 1 < get_role_level(min_role_name)

\* the test of role_required: TRUE when the decorator rejects with 403
role_denied(current_user_role, min_role_name) ==
    get_role_level(current_user_role) < get_role_level(min_role_name)

\* ------------------------------------------------------------ responses
Response(status, msg, n) == [status |-> status, msg |-> msg, n |-> n]

Denied == Response(403, "permission-denied", 0)

\* an empty table
NoRows == [k \in {} |-> {}]

\* a database value: the rows of user and post and the post id sequence
DB(u, p, n) == [users |-> u, posts |-> p, nextId |-> n]

Result(db, resp) == [db |-> db, resp |-> resp]

\* ------------------------------------------------------------- add_post
CooldownTicks == COOLDOWN_SECONDS * TicksPerSecond

\* variant: the window is one tick short
in_cooldown_lenient(elapsed) == elapsed + 1 < COOLDOWN_SECONDS * TicksPerSecond

\* timedelta.total_seconds() < COOLDOWN_SECONDS, on ticks
in_cooldown(elapsed) == elapsed < COOLDOWN_SECONDS * TicksPerSecond

\* variant: int() applied to the difference, not to the elapsed seconds
remaining_time_floor(elapsed) ==
    (COOLDOWN_SECONDS * TicksPerSecond - elapsed) \div TicksPerSecond

\* COOLDOWN_SECONDS - int(time_since_last_post.total_seconds())
remaining_time(elapsed) == COOLDOWN_SECONDS - (elapsed \div TicksPerSecond)

NewUser == [role |-> <<"blueID">>, additional_text |-> None,
            last_post_time |-> None]

\* a row of post: accepted_at is the handler's clock reading when it wrote
\* the post, seen the last-post time its cooldown test had read
Row(name, content, accepted_at, seen) ==
    [name |-> name, content |-> content, accepted_at |-> accepted_at,
     seen |-> seen]

\* User.query.filter_by(username=name).first(), creating the user if absent
get_or_create_user(us, name) ==
    IF name \in DOMAIN us THEN us
    ELSE [n \in DOMAIN us \cup {name} |-> IF n = name THEN NewUser ELSE us[n]]

\* add_post at clock t; the second datetime.now() is read d ticks later
add_post(db, name, content, t, d) ==
    IF name = <<>> \/ content = <<>>
    THEN Result(db, Response(400, "name-and-content-required", 0))
    ELSE
    LET us == get_or_create_user(db.users, name)
        user == us[name]
        elapsed == t - The(user.last_post_time)
    IN  IF user.last_post_time # None /\ in_cooldown(elapsed)
        THEN Result(DB(us, db.posts, db.nextId),
                    Response(429, "cooldown", remaining_time(elapsed)))
        ELSE
        LET new_post == Row(name, content, t + d, user.last_post_time)
            ps == [i \in DOMAIN db.posts \cup {db.nextId} |->
                      IF i = db.nextId THEN new_post ELSE db.posts[i]]
            us2 == [us EXCEPT ![name].last_post_time = Some(t + d)]
        IN  Result(DB(us2, ps, db.nextId + 1),
                   Response(201, "posted", db.nextId))

\* ------------------------------------------------- command functions
\* /add: @role_required(moderator) add_text_to_user
add_text_to_user(db, headers, username, text_to_add) ==
    IF role_denied(get_current_user_role(headers), <<"moderator">>)
    THEN Result(db, Denied)
    ELSE IF username \notin DOMAIN db.users
    THEN Result(db, Response(404, "user-not-found", 0))
    ELSE Result(DB([db.users EXCEPT ![username].additional_text =
                        Some(text_to_add)], db.posts, db.nextId),
                Response(200, "text-added", 0))

\* post_ids = [int(p) for p in parts[1:] if p.isdigit()]
RECURSIVE digit_ids(_)
digit_ids(tokens) ==
    IF tokens = <<>> THEN <<>>
    ELSE (IF isdigit(Head(tokens)) THEN <<int(Head(tokens))>> ELSE <<>>)
         \o digit_ids(Tail(tokens))

\* the loop of delete_posts_by_id: db.session.get finds a post of the
\* session until the commit, also one already marked for deletion
RECURSIVE delete_loop(_, _, _, _)
delete_loop(ps, post_ids, marked, deleted_count) ==
    IF post_ids = <<>> THEN [marked |-> marked, count |-> deleted_count]
    ELSE IF Head(post_ids) \in DOMAIN ps
         THEN delete_loop(ps, Tail(post_ids), marked \cup {Head(post_ids)},
                          deleted_count + 1)
         ELSE delete_loop(ps, Tail(post_ids), marked, deleted_count)

without(ps, ids) == [i \in DOMAIN ps \ ids |-> ps[i]]

\* the minimum role that decorates delete_posts_by_id
del_min_role == <<"manager">>

\* /del: @role_required(manager) delete_posts_by_id
delete_posts_by_id(db, headers, post_ids) ==
    IF role_denied(get_current_user_role(headers), del_min_role)
    THEN Result(db, Denied)
    ELSE IF post_ids = <<>>
    THEN Result(db, Response(400, "no-post-ids", 0))
    ELSE LET r == delete_loop(db.posts, post_ids, {}, 0)
         IN  Result(DB(db.users, without(db.posts, r.marked), db.nextId),
                    Response(200, "deleted", r.count))

\* /destroy: @role_required(moderator) delete_posts_by_content
delete_posts_by_content(db, headers, keyword) ==
    IF role_denied(get_current_user_role(headers), <<"moderator">>)
    THEN Result(db, Denied)
    ELSE IF keyword = <<>>
    THEN Result(db, Response(400, "no-keyword", 0))
    ELSE LET hit == {i \in DOMAIN db.posts :
                        like_contains(db.posts[i].content, keyword)}
         IN  Result(DB(db.users, without(db.posts, hit), db.nextId),
                    Response(200, "destroyed", Cardinality(hit)))

\* variant: TRUNCATE TABLE post CASCADE, without RESTART IDENTITY
truncate_post_keep_identity(db) == DB(db.users, NoRows, db.nextId)

\* TRUNCATE TABLE post RESTART IDENTITY CASCADE: no table references post
\* but post itself, so the rows of user stay
truncate_post(db) == DB(db.users, NoRows, 1)

\* /clear: @role_required(moderator) clear_all_posts; storage_ok is whether
\* the storage engine executes the statement
clear_all_posts(db, headers, storage_ok) ==
    IF role_denied(get_current_user_role(headers), <<"moderator">>)
    THEN Result(db, Denied)
    ELSE IF storage_ok
    THEN Result(truncate_post(db), Response(200, "cleared", 0))
    ELSE Result(db, Response(500, "clear-failed", 0))

\* variant: an equal tier is not rejected
promotion_not_higher_strict(target_role_level, current_role_level) ==
    target_role_level < current_role_level

\* if target_role_level <= current_role_level: reject (promotion)
promotion_not_higher(target_role_level, current_role_level) ==
    target_role_level <= current_role_level

\* if target_role_level - 1 > commander_role_level: reject (promotion)
promotion_out_of_range(target_role_level, commander_role_level) ==
    target_role_level - 1 > commander_role_level

\* if target_role_level >= current_role_level: reject (demotion)
demotion_not_lower(target_role_level, current_role_level) ==
    target_role_level >= current_role_level

\* variant: the one-tier allowance is missing
demotion_out_of_range_strict(target_role_level, commander_role_level) ==
    target_role_level < commander_role_level

\* if target_role_level + 1 < commander_role_level: reject (demotion)
demotion_out_of_range(target_role_level, commander_role_level) ==
    target_role_level + 1 < commander_role_level

set_role(db, username, role_name) ==
    DB([db.users EXCEPT ![username].role = role_name], db.posts, db.nextId)

\* @role_required(summit) promote_demote_user_role
promote_demote_user_role(db, headers, username, target_role_name, demote) ==
    IF role_denied(get_current_user_role(headers), <<"summit">>)
    THEN Result(db, Denied)
    ELSE IF username \notin DOMAIN db.users
    THEN Result(db, Response(404, "user-not-found", 0))
    ELSE
    LET current_role_level == get_role_level(db.users[username].role)
        target_role_level == get_role_level(target_role_name)
        commander_role_level ==
            get_role_level(get_current_user_role(headers))
    IN  IF ~demote
        THEN IF promotion_not_higher(target_role_level, current_role_level)
             THEN Result(db, Response(400, "already-equal-or-higher", 0))
             ELSE IF promotion_out_of_range(target_role_level,
                                            commander_role_level)
             THEN Result(db, Response(403, "exceeds-grantable-range", 0))
             ELSE Result(set_role(db, username, target_role_name),
                         Response(200, "promoted", 0))
        ELSE IF demotion_not_lower(target_role_level, current_role_level)
             THEN Result(db, Response(400, "already-equal-or-lower", 0))
             ELSE IF demotion_out_of_range(target_role_level,
                                           commander_role_level)
             THEN Result(db, Response(403, "exceeds-demotable-range", 0))
             ELSE Result(set_role(db, username, target_role_name),
                         Response(200, "demoted", 0))

IsRoleName(s) == \E i \in 1..Len(ROLES) : ROLES[i] = s

Reserved == { <<"NG">>, <<"OK">>, <<"prevent">>, <<"permit">>,
              <<"restrict">>, <<"stop">>, <<"prohibit">>, <<"release">>,
              <<"kill">>, <<"ban">>, <<"revive">>, <<"reduce">>,
              <<"topic">>, <<"color">>, <<"instances">>, <<"max">>,
              <<"range">> }

\* the body of handle_command, after its decorator
dispatch(db, headers, full_command_text, storage_ok) ==
    IF full_command_text = <<>> \/ ~startswith(full_command_text, <<"/">>)
    THEN Result(db, Response(400, "invalid-command-format", 0))
    ELSE
    LET parts == split(full_command_text, 2)
        command == drop(parts[1], 1)
    IN  IF command = <<"add">>
        THEN IF Len(parts) < 3
             THEN Result(db, Response(400, "usage", 0))
             ELSE add_text_to_user(db, headers, parts[2], parts[3])
        ELSE IF command = <<"del">>
        THEN IF Len(parts) < 2
             THEN Result(db, Response(200, "usage", 0))
             ELSE delete_posts_by_id(db, headers, digit_ids(Tail(parts)))
        ELSE IF command = <<"destroy">>
        THEN IF Len(parts) < 2
             THEN Result(db, Response(200, "usage", 0))
             ELSE IF startswith(parts[2], <<"(color)">>)
             THEN Result(db, Response(501, "not-implemented", 0))
             ELSE delete_posts_by_content(db, headers, parts[2])
        ELSE IF command = <<"clear">>
        THEN clear_all_posts(db, headers, storage_ok)
        ELSE IF IsRoleName(command)
        THEN IF Len(parts) < 2
             THEN Result(db, Response(400, "usage", 0))
             ELSE promote_demote_user_role(db, headers, parts[2], command,
                                           FALSE)
        ELSE IF startswith(command, <<"dis">>) /\ IsRoleName(drop(command, 1))
        THEN IF Len(parts) < 2
             THEN Result(db, Response(400, "usage", 0))
             ELSE promote_demote_user_role(db, headers, parts[2],
                                           drop(command, 1), TRUE)
        ELSE IF command = <<"dis", "self">>
        \* request.headers.get('X-User-Name', name): the default argument
        \* name is not defined in handle_command, a NameError
        THEN Result(db, Response(500, "NameError", 0))
        ELSE IF command \in Reserved
        THEN Result(db, Response(501, "not-implemented", 0))
        ELSE Result(db, Response(400, "unknown-command", 0))

\* @role_required(moderator) handle_command
handle_command(db, headers, full_command_text, storage_ok) ==
    IF role_denied(get_current_user_role(headers), <<"moderator">>)
    THEN Result(db, Denied)
    ELSE dispatch(db, headers, full_command_text, storage_ok)

\* ------------------------------------------------------------ requests
NoHeaders == [role |-> None, name |-> None]

RoleHeader(r) == [role |-> Some(r), name |-> None]

\* the words of a request text, joined by single spaces
RECURSIVE join(_)
join(words) ==
    IF Len(words) = 0 THEN <<>>
    ELSE IF Len(words) = 1 THEN words[1]
    ELSE words[1] \o <<" ">> \o join(Tail(words))

Names == { <<"alice">>, <<"bob">> }

RoleNames == {ROLES[i] : i \in 1..Len(ROLES)}

\* the X-User-Role headers: absent, each role, the empty and an unknown one
AllHeaders ==
    {NoHeaders} \cup {RoleHeader(r) : r \in RoleNames \cup {<<>>, <<"guest">>}}

\* /<roleName> <username> and /dis<roleName> <username>
PromoteText(r, u) == join(<< <<"/">> \o r, u >>)

DemoteText(r, u) == join(<< <<"/", "dis">> \o r, u >>)

DisselfText == <<"/", "dis", "self">>

\* ---------------------------------------------------------------- state
Procs == {1, 2}

NoRequest ==
    [op |-> "none", headers |-> NoHeaders, text |-> <<>>, name |-> <<>>,
     content |-> <<>>, storage_ok |-> TRUE, resp |-> Response(0, "none", 0)]

Idle == [name |-> <<>>, content |-> <<>>, seen |-> None, fresh |-> FALSE]

Init ==
    /\ users = NoRows
    /\ posts = NoRows
    /\ nextId = 1
    /\ now = 0
    /\ last = NoRequest
    /\ pc = [p \in Procs |-> "idle"]
    /\ loc = [p \in Procs |-> Idle]

\* -------------------------------------------------------------- actions
\* POST /posts handled from its first to its last line; the handler's second
\* clock reading is d ticks after its first
Post(name, content, d) ==
    /\ nextId <= MaxPosts
    /\ now + d <= MaxTime
    /\ LET r == add_post(DB(users, posts, nextId), name, content, now, d)
       IN  /\ users' = r.db.users
           /\ posts' = r.db.posts
           /\ nextId' = r.db.nextId
           /\ now' = IF r.resp.status = 201 THEN now + d ELSE now
           /\ last' = [op |-> "post", headers |-> NoHeaders, text |-> <<>>,
                       name |-> name, content |-> content,
                       storage_ok |-> TRUE, resp |-> r.resp]
    /\ UNCHANGED <<pc, loc>>

\* POST /command handled from its first to its last line
Command(headers, text, storage_ok) ==
    /\ LET r == handle_command(DB(users, posts, nextId), headers, text,
                               storage_ok)
       IN  /\ users' = r.db.users
           /\ posts' = r.db.posts
           /\ nextId' = r.db.nextId
           /\ last' = [op |-> "command", headers |-> headers, text |-> text,
                       name |-> <<>>, content |-> <<>>,
                       storage_ok |-> storage_ok, resp |-> r.resp]
    /\ UNCHANGED <<now, pc, loc>>

\* the clock moves on by d ticks
Advance(d) ==
    /\ now + d <= MaxTime
    /\ now' = now + d
    /\ UNCHANGED <<users, posts, nextId, last, pc, loc>>

\* ------------------------------------------------ the role transitions
RoleCallers ==
    {NoHeaders, RoleHeader(<<"moderator">>), RoleHeader(<<"summit">>),
     RoleHeader(<<"operator">>)}

RoleTexts ==
    {PromoteText(r, <<"alice">>) : r \in RoleNames}
    \cup {DemoteText(r, <<"alice">>) : r \in RoleNames}
    \cup {PromoteText(<<"summit">>, <<"bob">>),
          DemoteText(<<"moderator">>, <<"bob">>),
          PromoteText(<<"manager">>, <<"alice">>) \o <<" ", "please">>}

NextRoles ==
    \/ \E name \in Names : Post(name, <<"foo">>, 0)
    \/ \E h \in RoleCallers, t \in RoleTexts : Command(h, t, TRUE)
    \/ \E h \in RoleCallers, n \in {None, Some(<<"alice">>)} :
          Command([h EXCEPT !.name = n], DisselfText, TRUE)

SpecRoles == Init /\ [][NextRoles]_vars

\* ----------------------------------------------------------- the gate
GateTexts ==
    { join(<< <<"/", "add">>, <<"alice">>, <<"x">> >>),
      join(<< <<"/", "add">>, <<"alice">> >>),
      join(<< <<"/", "del">>, <<"1">> >>),
      join(<< <<"/", "del">> >>),
      join(<< <<"/", "destroy">>, <<"foo">> >>),
      join(<< <<"/", "destroy">> >>),
      join(<< <<"/", "clear">> >>),
      PromoteText(<<"summit">>, <<"alice">>),
      join(<< <<"/", "summit">> >>),
      DemoteText(<<"moderator">>, <<"alice">>),
      join(<< <<"/", "dis", "moderator">> >>),
      join(<< <<"/", "kill">>, <<"alice">> >>),
      join(<< <<"hello">> >>) }

Next ==
    \/ Post(<<"alice">>, <<"foo">>, 0)
    \/ \E h \in AllHeaders, t \in GateTexts : Command(h, t, TRUE)

Spec == Init /\ [][Next]_vars

\* ---------------------------------------------------------- the store
StoreCallers ==
    {RoleHeader(<<"speaker">>), RoleHeader(<<"manager">>),
     RoleHeader(<<"moderator">>)}

DelTexts ==
    { join(<< <<"/", "del">> >>),
      join(<< <<"/", "del">>, <<"1">> >>),
      join(<< <<"/", "del">>, <<"2">> >>),
      join(<< <<"/", "del">>, <<"abc">> >>),
      join(<< <<"/", "del">>, <<"1">>, <<"2">> >>),
      join(<< <<"/", "del">>, <<"2">>, <<"2">> >>),
      join(<< <<"/", "del">>, <<"abc">>, <<"1">> >>),
      join(<< <<"/", "del">>, <<"1">>, <<"2">>, <<"abc">> >>),
      join(<< <<"/", "del">>, <<"3">>, <<"2">>, <<"1">> >>) }

ClearText == <<"/", "clear">>

NextStore ==
    \/ \E name \in Names : Post(name, <<"foo">>, 0)
    \/ Advance(CooldownTicks)
    \/ \E h \in StoreCallers, t \in DelTexts : Command(h, t, TRUE)
    \/ \E h \in StoreCallers, ok \in BOOLEAN : Command(h, ClearText, ok)

SpecStore == Init /\ [][NextStore]_vars

\* ------------------------------------------------------- the cooldown
NextCooldown ==
    \/ \E name \in Names, d \in 0..MaxLatency : Post(name, <<"foo">>, d)
    \/ Advance(1)

SpecCooldown == Init /\ [][NextCooldown]_vars

\* ------------------------------------------- concurrent submissions
\* Each of the processes handles one POST /posts at a time, in the steps at
\* which add_post reads or writes the database or the clock.
Answer(name, content, resp) ==
    [op |-> "post", headers |-> NoHeaders, text |-> <<>>, name |-> name,
     content |-> content, storage_ok |-> TRUE, resp |-> resp]

\* User.query.filter_by(username=name).first(): the user row is loaded,
\* its last_post_time with it
Lookup(p, name, content) ==
    /\ pc[p] = "idle"
    /\ nextId <= MaxPosts
    /\ IF name = <<>> \/ content = <<>>
       THEN /\ last' = Answer(name, content,
                              Response(400, "name-and-content-required", 0))
            /\ UNCHANGED <<pc, loc>>
       ELSE IF name \in DOMAIN users
       THEN /\ pc' = [pc EXCEPT ![p] = "check"]
            /\ loc' = [loc EXCEPT ![p] =
                          [name |-> name, content |-> content,
                           seen |-> users[name].last_post_time,
                           fresh |-> FALSE]]
            /\ last' = last
       ELSE /\ pc' = [pc EXCEPT ![p] = "create"]
            /\ loc' = [loc EXCEPT ![p] =
                          [name |-> name, content |-> content,
                           seen |-> None, fresh |-> TRUE]]
            /\ last' = last
    /\ UNCHANGED <<users, posts, nextId, now>>

\* db.session.add(user); db.session.commit(): username is unique, so the
\* insert fails when another request created the user meanwhile
Create(p) ==
    /\ pc[p] = "create"
    /\ IF loc[p].name \in DOMAIN users
       THEN /\ last' = Answer(loc[p].name, loc[p].content,
                              Response(500, "IntegrityError", 0))
            /\ pc' = [pc EXCEPT ![p] = "idle"]
            /\ loc' = [loc EXCEPT ![p] = Idle]
            /\ users' = users
       ELSE /\ users' = get_or_create_user(users, loc[p].name)
            /\ pc' = [pc EXCEPT ![p] = "check"]
            /\ UNCHANGED <<loc, last>>
    /\ UNCHANGED <<posts, nextId, now>>

\* the cooldown test: a user loaded by Lookup has the last_post_time loaded
\* then, a user just committed is expired and read again here
Check(p) ==
    /\ pc[p] = "check"
    /\ LET lpt == IF loc[p].fresh THEN users[loc[p].name].last_post_time
                  ELSE loc[p].seen
       IN  IF lpt # None /\ in_cooldown(now - The(lpt))
           THEN /\ last' = Answer(loc[p].name, loc[p].content,
                                  Response(429, "cooldown",
                                           remaining_time(now - The(lpt))))
                /\ pc' = [pc EXCEPT ![p] = "idle"]
                /\ loc' = [loc EXCEPT ![p] = Idle]
           ELSE /\ pc' = [pc EXCEPT ![p] = "write"]
                /\ loc' = [loc EXCEPT ![p].seen = lpt]
                /\ last' = last
    /\ UNCHANGED <<users, posts, nextId, now>>

\* db.session.add(new_post); user.last_post_time = datetime.now();
\* db.session.commit()
Write(p) ==
    /\ pc[p] = "write"
    /\ posts' = [i \in DOMAIN posts \cup {nextId} |->
                    IF i = nextId
                    THEN Row(loc[p].name, loc[p].content, now, loc[p].seen)
                    ELSE posts[i]]
    /\ users' = [users EXCEPT ![loc[p].name].last_post_time = Some(now)]
    /\ nextId' = nextId + 1
    /\ last' = Answer(loc[p].name, loc[p].content,
                      Response(201, "posted", nextId))
    /\ pc' = [pc EXCEPT ![p] = "idle"]
    /\ loc' = [loc EXCEPT ![p] = Idle]
    /\ now' = now

NextConc ==
    \/ \E p \in Procs, name \in Names : Lookup(p, name, <<"foo">>)
    \/ \E p \in Procs : Create(p)
    \/ \E p \in Procs : Check(p)
    \/ \E p \in Procs : Write(p)
    \/ Advance(1)

SpecConc == Init /\ [][NextConc]_vars

\* --------------------------------------------- reading the last request
\* the tier of the caller: the index of the X-User-Role header's role, the
\* lowest tier when the header is absent, -1 for a name that is no role
CallerLevel(headers) ==
    IF headers.role = None THEN 0
    ELSE IF \E i \in 1..Len(ROLES) : ROLES[i] = The(headers.role)
    THEN (CHOOSE i \in 1..Len(ROLES) : ROLES[i] = The(headers.role)) - 1
    ELSE -1

Tier(role_name) == CHOOSE i \in 0..(Len(ROLES) - 1) : ROLES[i + 1] = role_name

SummitTier == Tier(<<"summit">>)

\* this step handled a command request (the clock stands still while a
\* request is handled; a step that repeats the last request with the same
\* outcome and no change is a stuttering step)
CommandStep == last'.op = "command" /\ now' = now /\ pc' = pc

StoreUnchanged == users' = users /\ posts' = posts /\ nextId' = nextId

\* this step handled a post submission
PostStep == last'.op = "post" /\ (now' = now \/ nextId' # nextId) /\ pc' = pc

\* the command name of a request text that starts with "/"
CommandName(text) == drop(split(text, 2)[1], 1)

IsDemoteName(c) == startswith(c, <<"dis">>) /\ drop(c, 1) \in RoleNames

IsGuarded(text) ==
    /\ startswith(text, <<"/">>)
    /\ \/ CommandName(text) \in
             { <<"add">>, <<"del">>, <<"destroy">>, <<"clear">> } \cup RoleNames
       \/ IsDemoteName(CommandName(text))

\* the tier a guarded command declares as its minimum (section 4.2)
MinTier(text) ==
    IF CommandName(text) = <<"del">> THEN Tier(<<"manager">>)
    ELSE IF CommandName(text) \in { <<"add">>, <<"destroy">>, <<"clear">> }
    THEN Tier(<<"moderator">>)
    ELSE Tier(<<"summit">>)

\* a promotion or demotion command without its username argument
LacksUsername(text) ==
    /\ CommandName(text) \in RoleNames \/ IsDemoteName(CommandName(text))
    /\ Len(split(text, 2)) < 2

Succeeded(resp) ==
    resp.status = 200 /\ resp.msg \in {"text-added", "deleted", "destroyed",
                                       "cleared", "promoted", "demoted"}

\* every token of a request text after the command name
Tokens(text) == Tail(split(text, Len(text)))

\* the posts a /del names: its numeric tokens that are ids of posts
Named(text, ps) ==
    {i \in DOMAIN ps : \E k \in 1..Len(Tokens(text)) :
        isdigit(Tokens(text)[k]) /\ int(Tokens(text)[k]) = i}

\* ------------------------------------------------------------- claims
\* C2: a promotion command /<roleName> <username> from a caller of summit
\* tier or higher against an existing user sets the user's role to the
\* target iff current < target <= commander + 1; otherwise it is rejected
\* and the user's role is unchanged.
C2_PromotionRule ==
    [][\A r \in RoleNames : \A u \in DOMAIN users :
         (/\ CommandStep
          /\ Len(split(last'.text, 2)) >= 2
          /\ split(last'.text, 2)[1] = <<"/">> \o r
          /\ split(last'.text, 2)[2] = u
          /\ CallerLevel(last'.headers) >= SummitTier)
         => IF /\ Tier(users[u].role) < Tier(r)
               /\ Tier(r) <= CallerLevel(last'.headers) + 1
            THEN /\ last'.resp.status = 200
                 /\ users' = [users EXCEPT ![u].role = r]
            ELSE /\ last'.resp.status \in {400, 403}
                 /\ users' = users]_vars

C2_Witness ==
    /\ last.op = "command"
    /\ last.resp.msg = "promoted"
    /\ last.text = PromoteText(<<"manager">>, <<"alice">>)
    /\ users[<<"alice">>].role = <<"manager">>

C4_Original ==
    (last.op = "command" /\ last.resp.msg = "promoted")
    => Tier(users[split(last.text, 2)[2]].role) < CallerLevel(last.headers)

\* C4 amended: after a successful promotion the user's tier is at most one
\* above the tier of the commander who issued it.
C4_PromotionBound ==
    (last.op = "command" /\ last.resp.msg = "promoted")
    => Tier(users[split(last.text, 2)[2]].role)
          <= CallerLevel(last.headers) + 1

C4_Witness ==
    /\ last.op = "command"
    /\ last.resp.msg = "promoted"
    /\ CallerLevel(last.headers) = SummitTier
    /\ users[<<"alice">>].role = <<"operator">>
    /\ split(last.text, 2)[2] = <<"alice">>

\* C5: /disself from a caller of summit tier or higher whose own user
\* record exists succeeds and leaves that caller's role at the lowest tier.
C5_Disself ==
    [][(/\ CommandStep
        /\ last'.text = DisselfText
        /\ CallerLevel(last'.headers) >= SummitTier
        /\ last'.headers.name # None
        /\ The(last'.headers.name) \in DOMAIN users)
       => /\ last'.resp.status = 200
          /\ users'[The(last'.headers.name)].role = ROLES[1]]_vars

\* C1 as stated: a guarded command (add, del, destroy, clear, promote,
\* demote) has its effect only if the caller's tier is at least the
\* command's minimum tier; otherwise the request is rejected with 403 and
\* users, posts and the id sequence are unchanged.
C1_Original ==
    [][(CommandStep /\ IsGuarded(last'.text))
       => /\ (Succeeded(last'.resp) \/ ~StoreUnchanged)
                => CallerLevel(last'.headers) >= MinTier(last'.text)
          /\ CallerLevel(last'.headers) < MinTier(last'.text)
                => (last'.resp = Denied /\ StoreUnchanged)]_vars

\* C1 amended: as stated, except that a promotion or demotion command
\* without its username argument from a caller who passes the moderator
\* gate of the command endpoint is rejected with the 400 usage error.
C1_Gate ==
    [][(CommandStep /\ IsGuarded(last'.text))
       => /\ (Succeeded(last'.resp) \/ ~StoreUnchanged)
                => CallerLevel(last'.headers) >= MinTier(last'.text)
          /\ CallerLevel(last'.headers) < MinTier(last'.text)
                => /\ StoreUnchanged
                   /\ IF /\ LacksUsername(last'.text)
                         /\ CallerLevel(last'.headers) >= Tier(<<"moderator">>)
                      THEN last'.resp = Response(400, "usage", 0)
                      ELSE last'.resp = Denied]_vars

C1_Witness ==
    /\ last.op = "command"
    /\ last.text = PromoteText(<<"summit">>, <<"alice">>)
    /\ last.headers = RoleHeader(<<"moderator">>)
    /\ last.resp = Denied
    /\ <<"alice">> \in DOMAIN users

\* C6: /del <id> from a caller of manager tier or higher is authorized and
\* deletes the named existing post; only callers below manager tier are
\* denied.
C6_DelManager ==
    [][(/\ CommandStep
        /\ CommandName(last'.text) = <<"del">>
        /\ Len(Tokens(last'.text)) = 1
        /\ Named(last'.text, posts) # {})
       => /\ CallerLevel(last'.headers) >= Tier(<<"manager">>)
               => /\ last'.resp.status = 200
                  /\ DOMAIN posts' = DOMAIN posts \ Named(last'.text, posts)
          /\ last'.resp = Denied
               => CallerLevel(last'.headers) < Tier(<<"manager">>)]_vars

\* C7: a /del with any number of space-separated tokens, from a caller the
\* endpoint admits, deletes exactly the existing posts its numeric tokens
\* name and reports the number of posts it deleted.
C7_DelList ==
    [][(/\ CommandStep
        /\ startswith(last'.text, <<"/">>)
        /\ CommandName(last'.text) = <<"del">>
        /\ Len(Tokens(last'.text)) >= 1
        /\ CallerLevel(last'.headers) >= Tier(<<"moderator">>))
       => /\ posts' = without(posts, Named(last'.text, posts))
          /\ last'.resp.status = 200
               => last'.resp.n = Cardinality(Named(last'.text, posts))]_vars

\* C9: a successful /clear by a caller of moderator tier or higher leaves no
\* post, leaves the users unchanged, and the next accepted post gets the
\* initial identifier 1.
C9_Clear ==
    [][/\ (/\ CommandStep
           /\ last'.text = ClearText
           /\ CallerLevel(last'.headers) >= Tier(<<"moderator">>)
           /\ last'.storage_ok)
          => /\ last'.resp = Response(200, "cleared", 0)
             /\ posts' = NoRows
             /\ users' = users
       /\ (/\ PostStep
           /\ last.op = "command" /\ last.resp.msg = "cleared"
           /\ last'.resp.status = 201)
          => /\ last'.resp.n = 1
             /\ DOMAIN posts' = {1}
             /\ posts'[1].name = last'.name]_vars

C9_Witness ==
    /\ last.op = "post"
    /\ last.resp = Response(201, "posted", 1)
    /\ DOMAIN posts = {1}
    /\ \E u \in DOMAIN users :
          u # last.name /\ users[u].last_post_time # None

\* C8 as stated: a submission under a name whose last accepted post is less
\* than the cooldown old is rejected with 429, reports (cooldown - elapsed)
\* rounded down, creates no post and keeps the last-post time; accepted
\* posts of one name are at least the cooldown apart.
C8_Original ==
    /\ [][\A u \in DOMAIN users :
            (/\ PostStep
             /\ last'.name = u
             /\ users[u].last_post_time # None
             /\ now - The(users[u].last_post_time) < CooldownTicks)
            => /\ last'.resp.status = 429
               /\ last'.resp.n =
                    (CooldownTicks - (now - The(users[u].last_post_time)))
                       \div TicksPerSecond
               /\ StoreUnchanged]_vars
    /\ [](\A i, j \in DOMAIN posts :
            (i < j /\ posts[i].name = posts[j].name)
            => posts[j].accepted_at - posts[i].accepted_at >= CooldownTicks)

\* C8 amended: the reported remaining seconds are the cooldown minus the
\* whole seconds elapsed (elapsed rounded down, so the remainder is rounded
\* up); the rest as stated.
C8_Cooldown ==
    /\ [][\A u \in DOMAIN users :
            (/\ PostStep
             /\ last'.name = u
             /\ users[u].last_post_time # None
             /\ now - The(users[u].last_post_time) < CooldownTicks)
            => /\ last'.resp.status = 429
               /\ last'.resp.n = COOLDOWN_SECONDS
                    - ((now - The(users[u].last_post_time)) \div TicksPerSecond)
               /\ StoreUnchanged]_vars
    /\ [](\A i, j \in DOMAIN posts :
            (i < j /\ posts[i].name = posts[j].name)
            => posts[j].accepted_at - posts[i].accepted_at >= CooldownTicks)

C8_Witness ==
    /\ last.op = "post"
    /\ last.resp.status = 429
    /\ (now - The(users[last.name].last_post_time)) % TicksPerSecond # 0
    /\ \E i, j \in DOMAIN posts : i < j /\ posts[i].name = posts[j].name

\* C10: under interleaved handling two submissions of one name can both be
\* accepted less than the cooldown apart (the witness); whenever that
\* happens, the cooldown test of the later one had read a last-post time
\* from before the earlier one wrote its own.
C10_StaleRead ==
    \A i, j \in DOMAIN posts :
        (/\ i < j
         /\ posts[i].name = posts[j].name
         /\ posts[j].accepted_at - posts[i].accepted_at < CooldownTicks)
        => \/ posts[j].seen = None
           \/ The(posts[j].seen) < posts[i].accepted_at

C10_Witness ==
    \E i, j \in DOMAIN posts :
        /\ i < j
        /\ posts[i].name = posts[j].name
        /\ posts[j].accepted_at - posts[i].accepted_at < CooldownTicks

====
